---- MODULE Spec2Model ----
(***************************************************************************)
(* Model of quick-review's review agent: the two tool sources              *)
(* (ReviewToolSource, McpReviewToolSource), the result slot, the fetch     *)
(* cache and LangGraphReviewAgent::run_review.                             *)
(*                                                                         *)
(* Three specifications share the definitions of the tools:                *)
(*   Spec      one run_review invocation (think -> act -> observe -> END)  *)
(*   ToolSpec  a caller making successive call_tool calls on one source    *)
(*   ConcSpec  several call_tool executions interleaved at lock level      *)
(***************************************************************************)
EXTENDS Integers, Sequences, FiniteSets, TLC

\* ------------------------------------------------------------------ bounds
\* tool calls carried by one decision-maker response
MaxCalls == 3
\* entries of a line_comments payload
MaxComments == 2
\* successive call_tool calls of the ToolSpec caller
MaxToolCalls == 2
\* concurrent call_tool executions of ConcSpec
NumTasks == 2
\* path segments of a URL given to PrUrl::parse
MaxSegments == 5
\* review invocations running on one agent
NumReviews == 2

\* ------------------------------------------------------------ option, JSON
None == [some |-> FALSE]

Some(v) == [some |-> TRUE, v |-> v]

\* a JSON member of the arguments object: absent, a string or a number
JAbsent == [k |-> "absent", s |-> "", n |-> 0]

JStr(s) == [k |-> "str", s |-> s, n |-> 0]

JNum(n) == [k |-> "num", s |-> "", n |-> n]

\* a member that is not a string read as the empty string
as_str_Lenient(v) == IF v.k = "str" THEN Some(v.s) ELSE Some("")

\* arguments.get(key).and_then(|v| v.as_str())
as_str(v) == IF v.k = "str" THEN Some(v.s) ELSE None

\* the line_comments member: absent, null, a string, or an array of objects
LcAbsent == [k |-> "absent", items |-> << >>]

LcNull == [k |-> "null", items |-> << >>]

LcStr == [k |-> "str", items |-> << >>]

LcArr(items) == [k |-> "arr", items |-> items]

Entry(p, l, b) == [path |-> p, line |-> l, body |-> b]

\* serde's derived Deserialize for LineCommentInput {path: String, line: u32,
\* body: String}: every field present and of its type; u32 rejects negatives.
\* (Numbers above u32::MAX are rejected too; the payloads below have none.)
DeEntryOk(e) ==
    /\ e.path.k = "str"
    /\ e.line.k = "num" /\ e.line.n >= 0
    /\ e.body.k = "str"

DeEntry(e) == [path |-> e.path.s, line |-> e.line.n, body |-> e.body.s]

\* serde_json::from_value::<Vec<LineCommentInput>>(
\*     arguments.get("line_comments").cloned().unwrap_or(json!([]))).ok()
\* One entry that fails to deserialize fails the whole vector.
from_value(lc) ==
    IF lc.k = "absent" THEN Some(<< >>)
    ELSE IF lc.k = "arr" /\ \A i \in 1..Len(lc.items) : DeEntryOk(lc.items[i])
         THEN Some([i \in 1..Len(lc.items) |-> DeEntry(lc.items[i])])
         ELSE None

unwrap_or_default(o) == IF o.some THEN o.v ELSE << >>

\* ------------------------------------------------------------- the verdict
\* the closure accepting line 0
KeepsComment_ZeroLine(c) == c.line >= 0 /\ c.path # "" /\ c.body # ""

\* the filter_map closure of build_review_result
KeepsComment(c) == c.line >= 1 /\ c.path # "" /\ c.body # ""

RECURSIVE filter_map(_)
filter_map(cs) ==
    IF cs = << >> THEN << >>
    ELSE (IF KeepsComment(Head(cs)) THEN << Head(cs) >> ELSE << >>)
         \o filter_map(Tail(cs))

build_review_result(summary, line_comments) ==
    [summary |-> summary,
     line_comments |-> filter_map(unwrap_or_default(line_comments))]

\* ------------------------------------------------------------ tool results
TOOL_GET_PR_CONTEXT == "get_pr_context"

TOOL_SUBMIT_REVIEW == "submit_review"

Ok(text) == [ok |-> TRUE, err |-> "", text |-> text]

InvalidInput(msg) == [ok |-> FALSE, err |-> "InvalidInput", text |-> msg]

\* the failure without the name of the tool
NotFound_Anonymous(name) == [ok |-> FALSE, err |-> "NotFound", text |-> ""]

NotFound(name) == [ok |-> FALSE, err |-> "NotFound", text |-> name]

MissingSummary == InvalidInput("submit_review: missing summary")

MemAck == Ok("Review submitted.")

McpAck == Ok("Review submitted and posted via MCP.")

\* --------------------------------------------------------------- PR content
RECURSIVE join(_)
join(list) ==
    IF list = << >> THEN ""
    ELSE IF Len(list) = 1 THEN list[1]
    ELSE list[1] \o ", " \o join(Tail(list))

\* ReviewToolSource::get_pr_context
get_pr_context(input, part) ==
    CASE part = "title" -> input.title
      [] part = "description" -> input.description
      [] part = "diff" -> input.diff
      [] part = "files" -> join(input.files)
      [] OTHER -> "Unknown part: " \o part

\* McpReviewToolSource::get_part_from_input
get_part_from_input(input, part) ==
    CASE part = "title" -> input.title
      [] part = "description" -> input.description
      [] part = "diff" -> input.diff
      [] part = "files" -> join(input.files)
      [] OTHER -> "Unknown part: " \o part

\* arguments.get("part").and_then(|v| v.as_str()).unwrap_or("")
PartOf(call) == IF as_str(call.part).some THEN as_str(call.part).v ELSE ""

\* ---------------------------------------------------------- input domains
Contents ==
    { [title |-> "T1", description |-> "D1", diff |-> "+a",
       files |-> << "a.rs", "b.rs" >>],
      [title |-> "T2", description |-> "", diff |-> "-b", files |-> << >>] }

EmptyInput == [title |-> "", description |-> "", diff |-> "", files |-> << >>]

\* outcomes of McpProvider::fetch and McpProvider::post_review
FetchOutcomes ==
    { [ok |-> TRUE, input |-> c, msg |-> ""] : c \in Contents }
    \cup { [ok |-> FALSE, input |-> EmptyInput, msg |-> "timeout"] }

PostOutcomes == { [ok |-> TRUE, msg |-> ""], [ok |-> FALSE, msg |-> "denied"] }

GoodA == Entry(JStr("a.rs"), JNum(1), JStr("x"))

GoodB == Entry(JStr("b.rs"), JNum(2), JStr("y"))

ZeroLine == Entry(JStr("a.rs"), JNum(0), JStr("x"))

EmptyPath == Entry(JStr(""), JNum(1), JStr("x"))

EmptyBody == Entry(JStr("a.rs"), JNum(1), JStr(""))

NegLine == Entry(JStr("a.rs"), JNum(-1), JStr("x"))

TextLine == Entry(JStr("a.rs"), JStr("1"), JStr("x"))

NoBody == Entry(JStr("a.rs"), JNum(1), JAbsent)

EntryPool ==
    { GoodA, GoodB, ZeroLine, EmptyPath, EmptyBody, NegLine, TextLine, NoBody }

Payloads ==
    { LcAbsent, LcNull, LcStr }
    \cup { LcArr(s) : s \in UNION { [1..k -> EntryPool] : k \in 0..MaxComments } }

MkCall(name, part, summary, lc) ==
    [name |-> name, part |-> part, summary |-> summary, line_comments |-> lc]

GetCalls ==
    { MkCall(TOOL_GET_PR_CONTEXT, p, JAbsent, LcAbsent) :
        p \in { JStr("title"), JStr("description"), JStr("diff"),
                JStr("files"), JStr("bogus"), JNum(7), JAbsent } }

UnknownCalls == { MkCall("merge_pr", JAbsent, JStr("s1"), LcAbsent) }

\* the calls of the ToolSpec caller: every payload shape
ToolCalls ==
    GetCalls \cup UnknownCalls
    \cup { MkCall(TOOL_SUBMIT_REVIEW, JAbsent, s, lc) :
             s \in { JAbsent, JNum(5), JStr("s1") }, lc \in Payloads }

NoCall == MkCall("", JAbsent, JAbsent, LcAbsent)

NoResult == [ok |-> FALSE, err |-> "", text |-> ""]

NoVerdict == [summary |-> "", line_comments |-> << >>]

\* ------------------------------------------------ call_tool, as one step
\* what one call_tool execution did: its return value, the slot and cache it
\* leaves, whether it called fetch / post_review and how that ended
Effect(result, slot, cache, fetch, post, verdict) ==
    [result |-> result, slot |-> slot, cached |-> cache,
     fetch |-> fetch, post |-> post, verdict |-> verdict]

\* slot.is_none() answering true for a filled slot
IsNone_Always(slot) == TRUE

\* slot.is_none()
IsNone(slot) == ~slot.some

\* the slot write left out
WriteOnce_Never(slot, result) == slot

\* if slot.is_none() { *slot = Some(result); }
WriteOnce(slot, result) == IF IsNone(slot) THEN Some(result) ELSE slot

\* cached.is_none() answering true for a filled cache
CacheMiss_Always(cache) == TRUE

\* cached.is_none()
CacheMiss(cache) == ~cache.some

\* ReviewToolSource::call_tool
MemCallTool(call, slot, inp) ==
    IF call.name = TOOL_GET_PR_CONTEXT
    THEN Effect(Ok(get_pr_context(inp, PartOf(call))), slot, None,
                "none", "none", NoVerdict)
    ELSE IF call.name = TOOL_SUBMIT_REVIEW
    THEN IF ~as_str(call.summary).some
         THEN Effect(MissingSummary, slot, None, "none", "none", NoVerdict)
         ELSE LET result == build_review_result(as_str(call.summary).v,
                                                from_value(call.line_comments))
              IN Effect(MemAck, WriteOnce(slot, result), None,
                        "none", "none", result)
    ELSE Effect(NotFound(call.name), slot, None, "none", "none", NoVerdict)

\* post_review's error dropped instead of returned with `?`
McpSubmit_IgnoresPostError(call, slot, cache, p) ==
    IF ~as_str(call.summary).some
    THEN Effect(MissingSummary, slot, cache, "none", "none", NoVerdict)
    ELSE LET result ==
               [summary |-> as_str(call.summary).v,
                line_comments |->
                   filter_map(unwrap_or_default(from_value(call.line_comments)))]
         IN Effect(McpAck, WriteOnce(slot, result), cache, "none",
                   IF p.ok THEN "ok" ELSE "err", result)

\* McpReviewToolSource::call_tool, TOOL_SUBMIT_REVIEW arm, with the slot
\* written before post_review is called
McpSubmit_StoreFirst(call, slot, cache, p) ==
    IF ~as_str(call.summary).some
    THEN Effect(MissingSummary, slot, cache, "none", "none", NoVerdict)
    ELSE LET result ==
               [summary |-> as_str(call.summary).v,
                line_comments |->
                   filter_map(unwrap_or_default(from_value(call.line_comments)))]
         IN IF ~p.ok
            THEN Effect(InvalidInput("MCP post_review failed: " \o p.msg),
                        WriteOnce(slot, result), cache, "none", "err", result)
            ELSE Effect(McpAck, WriteOnce(slot, result), cache,
                        "none", "ok", result)

\* McpReviewToolSource::call_tool, TOOL_SUBMIT_REVIEW arm; p is what the
\* provider answers if the call reaches post_review
McpSubmit(call, slot, cache, p) ==
    IF ~as_str(call.summary).some
    THEN Effect(MissingSummary, slot, cache, "none", "none", NoVerdict)
    ELSE LET result ==
               [summary |-> as_str(call.summary).v,
                line_comments |->
                   filter_map(unwrap_or_default(from_value(call.line_comments)))]
         IN IF ~p.ok
            THEN Effect(InvalidInput("MCP post_review failed: " \o p.msg),
                        slot, cache, "none", "err", result)
            ELSE Effect(McpAck, WriteOnce(slot, result), cache,
                        "none", "ok", result)

\* the TOOL_GET_PR_CONTEXT arm caching an empty bundle when fetch fails
McpGet_CachesFailure(call, slot, cache, f) ==
    IF CacheMiss(cache)
    THEN IF ~f.ok
         THEN Effect(InvalidInput("MCP fetch failed: " \o f.msg),
                     slot, Some(EmptyInput), "err", "none", NoVerdict)
         ELSE Effect(Ok(get_part_from_input(f.input, PartOf(call))),
                     slot, Some(f.input), "ok", "none", NoVerdict)
    ELSE Effect(Ok(get_part_from_input(cache.v, PartOf(call))),
                slot, cache, "none", "none", NoVerdict)

\* the TOOL_GET_PR_CONTEXT arm resetting the slot for a fresh review
McpGet_ClearsSlot(call, slot, cache, f) ==
    IF CacheMiss(cache)
    THEN IF ~f.ok
         THEN Effect(InvalidInput("MCP fetch failed: " \o f.msg),
                     None, cache, "err", "none", NoVerdict)
         ELSE Effect(Ok(get_part_from_input(f.input, PartOf(call))),
                     None, Some(f.input), "ok", "none", NoVerdict)
    ELSE Effect(Ok(get_part_from_input(cache.v, PartOf(call))),
                None, cache, "none", "none", NoVerdict)

\* McpReviewToolSource::call_tool, TOOL_GET_PR_CONTEXT arm; f is what the
\* provider answers if the call reaches fetch
McpGet(call, slot, cache, f) ==
    IF CacheMiss(cache)
    THEN IF ~f.ok
         THEN Effect(InvalidInput("MCP fetch failed: " \o f.msg),
                     slot, cache, "err", "none", NoVerdict)
         ELSE Effect(Ok(get_part_from_input(f.input, PartOf(call))),
                     slot, Some(f.input), "ok", "none", NoVerdict)
    ELSE Effect(Ok(get_part_from_input(cache.v, PartOf(call))),
                slot, cache, "none", "none", NoVerdict)

\* McpReviewToolSource::call_tool
McpCallTool(call, slot, cache, f, p) ==
    IF call.name = TOOL_GET_PR_CONTEXT THEN McpGet(call, slot, cache, f)
    ELSE IF call.name = TOOL_SUBMIT_REVIEW THEN McpSubmit(call, slot, cache, p)
    ELSE Effect(NotFound(call.name), slot, cache, "none", "none", NoVerdict)

\* ReviewToolSource::tool_specs, by tool name
tool_specs == << TOOL_GET_PR_CONTEXT, TOOL_SUBMIT_REVIEW >>

\* ToolSource::list_tools of both tool sources: Ok(Self::tool_specs())
list_tools(b) == [ok |-> TRUE, tools |-> tool_specs]

NoCatalog == [ok |-> FALSE, tools |-> << >>]

\* ------------------------------------------------------------------- state
VARIABLES
    backing,      \* "memory": ReviewToolSource, "mcp": McpReviewToolSource
    input,        \* ReviewToolSource.input
    result_slot,  \* Arc<RwLock<Option<ReviewResult>>>
    cached,       \* McpReviewToolSource.cached
    fetchCalls,   \* provider: number of fetch calls received
    fetchOks,     \* provider: number of fetch calls answered Ok
    postCalls,    \* provider: number of post_review calls received
    posted,       \* provider: the verdicts of the post_review calls answered Ok
    callsMade,    \* ToolSpec: calls made so far
    lastCall,     \* ToolSpec: the last call
    lastResult,   \* ToolSpec: what it returned
    lastEffect,   \* ToolSpec: what it did (fetch / post, slot before)
    listed,       \* ToolSpec: what the last list_tools returned
    pc,           \* run_review: where the invocation is
    messages,     \* ReActState.messages
    tool_calls,   \* ReActState.tool_calls
    tool_results, \* ReActState.tool_results
    invoked,      \* what compiled.invoke(state, None) returned
    thinks,       \* number of LlmClient::invoke calls of this review
    log,          \* the call_tool executions of this review, in order
    outcome,      \* what run_review returned
    reads,        \* number of slot.read() calls run_review made
    tpc,          \* ConcSpec: where each call_tool execution is
    tcall,        \* ConcSpec: its name and arguments
    tverdict,     \* ConcSpec: its local `result`
    tret,         \* ConcSpec: what it returned
    slotLock,     \* holder of result_slot's write lock, 0 when free
    cacheLock,    \* holder of cached's write lock, 0 when free
    arrivals,     \* ConcSpec: the executions in the order they locked the slot
    ppc,          \* ReviewPipeline::run: where the call is
    pr,           \* its argument `pr`
    project_path, \* ReviewPipeline.project_path
    fetched,      \* its local `input`
    reviewed,     \* its local `result`
    pipelineRet,  \* what run returned
    stages,       \* the provider and agent calls run made, in order
    url,          \* PrUrl::parse: its argument
    parsed,       \* PrUrl::parse: what it returned
    slots,        \* the Arc<RwLock<Option<ReviewResult>>> cells on the heap
    caches,       \* the Arc<RwLock<Option<ReviewInput>>> cells on the heap
    rslot,        \* per review: the cell its `result_slot` points to
    rcached,      \* per review: the cell its tool source's `cached` points to
    rpc,          \* per review: where run_review is
    rcalls,       \* per review: ReActState.tool_calls
    rlog,         \* per review: its call_tool executions, in order
    rinvoked,     \* per review: what compiled.invoke returned
    routcome      \* per review: what run_review returned

toolVars == << backing, input, result_slot, cached,
               fetchCalls, fetchOks, postCalls, posted >>

harnessVars == << callsMade, lastCall, lastResult, lastEffect, listed >>

reviewVars == << pc, messages, tool_calls, tool_results, invoked, thinks, log,
                outcome, reads >>

concVars == << tpc, tcall, tverdict, tret, slotLock, cacheLock, arrivals >>

pipeVars == << ppc, pr, project_path, fetched, reviewed, pipelineRet, stages >>

parseVars == << url, parsed >>

\* the reviews of one agent
isoVars == << slots, caches, rslot, rcached, rpc, rcalls, rlog, rinvoked,
             routcome >>

\* the state of ReviewPipeline::run, PrUrl::parse and the agent's reviews,
\* which no tool of the single review touches
extVars == << pipeVars, parseVars, isoVars >>

vars == << toolVars, harnessVars, reviewVars, concVars, extVars >>

\* the state change of one call_tool execution with effect e
Apply(e) ==
    /\ result_slot' = e.slot
    /\ cached' = e.cached
    /\ fetchCalls' = fetchCalls + (IF e.fetch # "none" THEN 1 ELSE 0)
    /\ fetchOks' = fetchOks + (IF e.fetch = "ok" THEN 1 ELSE 0)
    /\ postCalls' = postCalls + (IF e.post # "none" THEN 1 ELSE 0)
    /\ posted' = IF e.post = "ok" THEN Append(posted, e.verdict) ELSE posted
    /\ UNCHANGED << backing, input >>

NoEffect == [fetch |-> "none", post |-> "none", slotBefore |-> None,
             cachedBefore |-> None, verdict |-> NoVerdict]

NoOutcome == [kind |-> "none", verdict |-> NoVerdict, message |-> ""]

Pending == [done |-> FALSE, ok |-> FALSE, message |-> ""]

Tasks == 1..NumTasks

\* no call_tool execution is in flight (Spec, ToolSpec run them as one step)
ConcIdle ==
    /\ tpc = [t \in Tasks |-> "idle"]
    /\ tcall = [t \in Tasks |-> NoCall]
    /\ tverdict = [t \in Tasks |-> NoVerdict]
    /\ tret = [t \in Tasks |-> NoResult]
    /\ slotLock = 0 /\ cacheLock = 0
    /\ arrivals = << >>

\* no review is running (ToolSpec, ConcSpec)
ReviewIdle ==
    /\ pc = "idle"
    /\ messages = << >> /\ tool_calls = << >> /\ tool_results = << >>
    /\ invoked = Pending
    /\ thinks = 0
    /\ log = << >>
    /\ outcome = NoOutcome
    /\ reads = 0

NoPrUrl == [platform |-> "", owner |-> "", repo |-> "", id |-> ""]

NotRun == [kind |-> "none", result |-> NoVerdict, message |-> ""]

\* no pipeline run is in progress (ToolSpec, Spec, ConcSpec)
PipelineIdle ==
    /\ ppc = "idle"
    /\ pr = NoPrUrl
    /\ project_path = None
    /\ fetched = None
    /\ reviewed = None
    /\ pipelineRet = NotRun
    /\ stages = << >>

NoUrl == [lead |-> "", host |-> "", segs |-> << >>, trail |-> ""]

\* no URL is being parsed
ParseIdle ==
    /\ url = NoUrl
    /\ parsed = [done |-> FALSE, value |-> None]

Reviews == 1..NumReviews

\* a heap cell no Arc::new has returned yet
Free == [some |-> FALSE, free |-> TRUE]

\* the agent exists, review has not been called (every Init)
IsoIdle ==
    /\ slots = [c \in Reviews |-> Free]
    /\ caches = [c \in Reviews |-> Free]
    /\ rslot = [r \in Reviews |-> 0]
    /\ rcached = [r \in Reviews |-> 0]
    /\ rpc = [r \in Reviews |-> "idle"]
    /\ rcalls = [r \in Reviews |-> << >>]
    /\ rlog = [r \in Reviews |-> << >>]
    /\ rinvoked = [r \in Reviews |-> Pending]
    /\ routcome = [r \in Reviews |-> NoOutcome]

\* ReviewToolSource::new / McpReviewToolSource::new with a fresh slot
ToolInit ==
    /\ backing \in { "memory", "mcp" }
    /\ input \in Contents
    /\ result_slot = None
    /\ cached = None
    /\ fetchCalls = 0 /\ fetchOks = 0 /\ postCalls = 0 /\ posted = << >>
    /\ callsMade = 0
    /\ lastCall = NoCall
    /\ lastResult = NoResult
    /\ lastEffect = NoEffect
    /\ listed = NoCatalog
    /\ ReviewIdle
    /\ ConcIdle
    /\ IsoIdle
    /\ PipelineIdle
    /\ ParseIdle

Record(call, e) ==
    /\ callsMade' = callsMade + 1
    /\ lastCall' = call
    /\ lastResult' = e.result
    /\ lastEffect' = [fetch |-> e.fetch, post |-> e.post,
                      slotBefore |-> result_slot, cachedBefore |-> cached,
                      verdict |-> e.verdict]

\* the provider is asked only by a call that reaches it
FetchChoices(call) ==
    IF call.name = TOOL_GET_PR_CONTEXT /\ ~cached.some
    THEN FetchOutcomes ELSE { CHOOSE f \in FetchOutcomes : ~f.ok }

PostChoices(call) ==
    IF call.name = TOOL_SUBMIT_REVIEW /\ as_str(call.summary).some
    THEN PostOutcomes ELSE { CHOOSE p \in PostOutcomes : ~p.ok }

\* tools.call_tool(name, arguments) on a ReviewToolSource
MemCall ==
    /\ UNCHANGED extVars
    /\ backing = "memory"
    /\ callsMade < MaxToolCalls
    /\ lastCall = NoCall /\ listed = NoCatalog
    /\ UNCHANGED listed
    /\ \E call \in ToolCalls :
         LET e == MemCallTool(call, result_slot, input)
         IN Apply(e) /\ Record(call, e) /\ UNCHANGED << reviewVars, concVars >>

\* tools.call_tool(name, arguments) on a McpReviewToolSource
McpCall ==
    /\ UNCHANGED extVars
    /\ backing = "mcp"
    /\ callsMade < MaxToolCalls
    /\ lastCall = NoCall /\ listed = NoCatalog
    /\ UNCHANGED listed
    /\ \E call \in ToolCalls :
         \E f \in FetchChoices(call), p \in PostChoices(call) :
            LET e == McpCallTool(call, result_slot, cached, f, p)
            IN Apply(e) /\ Record(call, e) /\ UNCHANGED << reviewVars, concVars >>

\* tools.list_tools() on either tool source
ListTools ==
    /\ UNCHANGED extVars
    /\ lastCall = NoCall /\ listed = NoCatalog
    /\ listed' = list_tools(backing)
    /\ UNCHANGED << toolVars, callsMade, lastCall, lastResult, lastEffect,
                    reviewVars, concVars >>

\* the caller takes the returned value and drops the arguments
TakeResult ==
    /\ UNCHANGED extVars
    /\ lastCall # NoCall \/ listed # NoCatalog
    /\ lastCall' = NoCall
    /\ lastResult' = NoResult
    /\ lastEffect' = NoEffect
    /\ listed' = NoCatalog
    /\ UNCHANGED << toolVars, callsMade, reviewVars, concVars >>

ToolNext == MemCall \/ McpCall \/ ListTools \/ TakeResult

ToolSpec == ToolInit /\ [][ToolNext]_vars

\* ------------------------------------------------------------- run_review
\* the tool calls a decision-maker response may carry
LlmCalls ==
    { MkCall(TOOL_GET_PR_CONTEXT, JStr("diff"), JAbsent, LcAbsent),
      MkCall(TOOL_GET_PR_CONTEXT, JStr("bogus"), JAbsent, LcAbsent),
      MkCall(TOOL_SUBMIT_REVIEW, JAbsent, JStr("s1"), LcAbsent),
      MkCall(TOOL_SUBMIT_REVIEW, JAbsent, JStr("s2"),
             LcArr(<< GoodA, ZeroLine >>)),
      MkCall(TOOL_SUBMIT_REVIEW, JAbsent, JAbsent, LcArr(<< GoodA >>)),
      MkCall("merge_pr", JAbsent, JStr("s1"), LcAbsent) }

\* LlmClient::invoke: a response (text and tool calls) or an AgentError
LlmResponses ==
    { [ok |-> TRUE, content |-> "done", tool_calls |-> cs, error |-> ""] :
        cs \in UNION { [1..k -> LlmCalls] : k \in 0..MaxCalls } }
    \cup { [ok |-> FALSE, content |-> "", tool_calls |-> << >>,
            error |-> "llm unreachable"] }

\* AgentError's Display, as used by e.to_string(): the text embeds the detail
\* the failing node reported
AgentErrorToString(e) == "execution failed: " \o e

NOT_SUBMITTED == "review agent did not call submit_review"

Msg(role, content) == [role |-> role, content |-> content]

\* ToolSourceError's Display, as the text of a failed call's tool result
ToolErrorText(r) == r.err \o ": " \o r.text

\* the tool-result entry ActNode records for one call
ToolResultOf(call, r) ==
    [name |-> call.name, ok |-> r.ok,
     content |-> IF r.ok THEN r.text ELSE ToolErrorText(r)]

\* an edge from act back to think
add_edge_ActToThink(from) ==
    CASE from = "START" -> "think"
      [] from = "think" -> "act"
      [] from = "act" -> "think"
      [] from = "observe" -> "returned"

\* the loop of the doc comment: an edge from observe back to think
add_edge_ObserveToThink(from) ==
    CASE from = "START" -> "think"
      [] from = "think" -> "act"
      [] from = "act" -> "observe"
      [] from = "observe" -> "think"

\* the edges of the graph: add_edge(START, "think"), add_edge("think", "act"),
\* add_edge("act", "observe"), add_edge("observe", END); reaching END is
\* compiled.invoke returning, "returned"
add_edge(from) ==
    CASE from = "START" -> "think"
      [] from = "think" -> "act"
      [] from = "act" -> "observe"
      [] from = "observe" -> "returned"

\* run_review up to compiled.invoke: fresh slot, McpReviewToolSource::new,
\* the graph, the initial ReActState
Init ==
    /\ backing = "mcp"
    /\ input = EmptyInput
    /\ result_slot = None
    /\ cached = None
    /\ fetchCalls = 0 /\ fetchOks = 0 /\ postCalls = 0 /\ posted = << >>
    /\ callsMade = 0 /\ lastCall = NoCall /\ lastResult = NoResult
    /\ lastEffect = NoEffect
    /\ listed = NoCatalog
    /\ pc = add_edge("START")
    /\ messages = << Msg("system", "REVIEW_SYSTEM_PROMPT"),
                     Msg("user", "pr_url_to_user_message") >>
    /\ tool_calls = << >>
    /\ tool_results = << >>
    /\ invoked = Pending
    /\ thinks = 0
    /\ log = << >>
    /\ outcome = NoOutcome
    /\ reads = 0
    /\ ConcIdle
    /\ IsoIdle
    /\ PipelineIdle
    /\ ParseIdle

\* node "think": ThinkNode asks the LLM; its answer becomes an assistant
\* message and the pending tool calls
Think ==
    /\ UNCHANGED extVars
    /\ UNCHANGED reads
    /\ pc = "think"
    /\ \E r \in { x \in LlmResponses : x.ok } :
         /\ messages' = Append(messages, Msg("assistant", r.content))
         /\ tool_calls' = r.tool_calls
    /\ thinks' = thinks + 1
    /\ pc' = add_edge("think")
    /\ UNCHANGED << toolVars, harnessVars, concVars, tool_results, invoked, log,
                    outcome >>

\* node "think" when LlmClient::invoke fails: the graph run ends with the error
ThinkFail ==
    /\ UNCHANGED extVars
    /\ UNCHANGED reads
    /\ pc = "think"
    /\ \E r \in { x \in LlmResponses : ~x.ok } :
         invoked' = [done |-> TRUE, ok |-> FALSE, message |-> r.error]
    /\ thinks' = thinks + 1
    /\ pc' = "returned"
    /\ UNCHANGED << toolVars, harnessVars, concVars, messages, tool_calls,
                    tool_results, log, outcome >>

\* node "act": ActNode executes the next pending call through
\* McpReviewToolSource::call_tool and records its result
ActCall ==
    /\ UNCHANGED extVars
    /\ UNCHANGED reads
    /\ pc = "act"
    /\ Len(tool_results) < Len(tool_calls)
    /\ LET call == tool_calls[Len(tool_results) + 1]
       IN \E f \in FetchChoices(call), p \in PostChoices(call) :
            LET e == McpCallTool(call, result_slot, cached, f, p)
            IN /\ Apply(e)
               /\ tool_results' = Append(tool_results, ToolResultOf(call, e.result))
               /\ log' = Append(log, [call |-> call, result |-> e.result,
                                      fetch |-> e.fetch, post |-> e.post,
                                      verdict |-> e.verdict,
                                      slotBefore |-> result_slot,
                                      slotAfter |-> e.slot])
    /\ UNCHANGED << harnessVars, concVars, pc, messages, tool_calls, invoked,
                    thinks, outcome >>

\* node "act" has executed every pending call: edge act -> observe
ActEnd ==
    /\ UNCHANGED extVars
    /\ UNCHANGED reads
    /\ pc = "act"
    /\ Len(tool_results) = Len(tool_calls)
    /\ pc' = add_edge("act")
    /\ UNCHANGED << toolVars, harnessVars, concVars, messages, tool_calls,
                    tool_results, invoked, thinks, log, outcome >>

RECURSIVE ToolMessages(_)
ToolMessages(rs) ==
    IF rs = << >> THEN << >>
    ELSE << Msg("tool", Head(rs).content) >> \o ToolMessages(Tail(rs))

\* node "observe": ObserveNode moves the tool results into the conversation;
\* edge observe -> END ends the graph run
Observe ==
    /\ UNCHANGED extVars
    /\ UNCHANGED reads
    /\ pc = "observe"
    /\ messages' = messages \o ToolMessages(tool_results)
    /\ tool_calls' = << >>
    /\ tool_results' = << >>
    /\ invoked' = [done |-> TRUE, ok |-> TRUE, message |-> ""]
    /\ pc' = add_edge("observe")
    /\ UNCHANGED << toolVars, harnessVars, concVars, thinks, log, outcome >>

OkVerdict(v) == [kind |-> "ok", verdict |-> v, message |-> ""]

ReviewError(m) == [kind |-> "err", verdict |-> NoVerdict, message |-> m]

\* the slot read also after a failed graph run
SlotReads_Always(inv) == 1

\* compiled.invoke(state, None).await?; let guard = slot.read().await;
\* the number of reads of the slot: `?` returns before the read
SlotReads(inv) == IF inv.ok THEN 1 ELSE 0

\* an empty slot read with unwrap_or_default
ReviewOutcome_DefaultVerdict(inv, slot) ==
    IF ~inv.ok THEN ReviewError(AgentErrorToString(inv.message))
    ELSE IF slot.some THEN OkVerdict(slot.v)
    ELSE OkVerdict(NoVerdict)

\* the graph's error dropped instead of propagated with `?`
ReviewOutcome_IgnoresError(inv, slot) ==
    IF slot.some THEN OkVerdict(slot.v) ELSE ReviewError(NOT_SUBMITTED)

\* run_review after compiled.invoke: `?` on the graph's error, else read the
\* slot; None becomes the "did not call submit_review" error
ReviewOutcome(inv, slot) ==
    IF ~inv.ok THEN ReviewError(AgentErrorToString(inv.message))
    ELSE IF slot.some THEN OkVerdict(slot.v)
    ELSE ReviewError(NOT_SUBMITTED)

Return ==
    /\ UNCHANGED extVars
    /\ pc = "returned"
    /\ reads' = reads + SlotReads(invoked)
    /\ outcome' = ReviewOutcome(invoked, result_slot)
    /\ pc' = "done"
    /\ UNCHANGED << toolVars, harnessVars, concVars, messages, tool_calls,
                    tool_results, invoked, thinks, log >>

Next == Think \/ ThinkFail \/ ActCall \/ ActEnd \/ Observe \/ Return

Spec == Init /\ [][Next]_vars

\* self.runtime.block_on drives the graph run to completion: while a step of
\* the review is possible one is taken (the LLM, fetch and post_review calls
\* return)
FairSpec == Spec /\ WF_vars(Next)

\* ------------------------------------------- call_tool, step by step
\* write().await returning while another guard is alive
LockFree_Always(lock) == TRUE

\* the RwLock guards result_slot and cached: write().await returns when no
\* other guard is alive
LockFree(lock) == lock = 0

AckOf(b) == IF b = "memory" THEN MemAck ELSE McpAck

ConcInit ==
    /\ backing \in { "memory", "mcp" }
    /\ input \in Contents
    /\ result_slot = None
    /\ cached = None
    /\ fetchCalls = 0 /\ fetchOks = 0 /\ postCalls = 0 /\ posted = << >>
    /\ callsMade = 0 /\ lastCall = NoCall /\ lastResult = NoResult
    /\ lastEffect = NoEffect
    /\ listed = NoCatalog
    /\ ReviewIdle
    /\ ConcIdle
    /\ IsoIdle
    /\ PipelineIdle
    /\ ParseIdle

Returns(t, r) ==
    /\ tret' = [tret EXCEPT ![t] = r]
    /\ tpc' = [tpc EXCEPT ![t] = "done"]

Goto(t, label) == tpc' = [tpc EXCEPT ![t] = label]

\* call_tool entered: match on name, read the scalar arguments, build `result`
CStart(t) ==
    /\ UNCHANGED extVars
    /\ tpc[t] = "idle"
    /\ \E call \in LlmCalls :
         /\ tcall' = [tcall EXCEPT ![t] = call]
         /\ IF call.name = TOOL_GET_PR_CONTEXT
            THEN /\ IF backing = "memory"
                    THEN Returns(t, Ok(get_pr_context(input, PartOf(call))))
                    ELSE Goto(t, "lock_cache") /\ UNCHANGED tret
                 /\ UNCHANGED tverdict
            ELSE IF call.name = TOOL_SUBMIT_REVIEW
            THEN IF ~as_str(call.summary).some
                 THEN Returns(t, MissingSummary) /\ UNCHANGED tverdict
                 ELSE /\ tverdict' =
                           [tverdict EXCEPT ![t] =
                              build_review_result(as_str(call.summary).v,
                                                  from_value(call.line_comments))]
                      /\ Goto(t, IF backing = "memory" THEN "lock_slot" ELSE "post")
                      /\ UNCHANGED tret
            ELSE Returns(t, NotFound(call.name)) /\ UNCHANGED tverdict
    /\ UNCHANGED << toolVars, harnessVars, reviewVars, slotLock, cacheLock,
                    arrivals >>

\* self.mcp.post_review(&self.pr, &result).map_err(..)?
CPost(t) ==
    /\ UNCHANGED extVars
    /\ tpc[t] = "post"
    /\ \E p \in PostOutcomes :
         /\ postCalls' = postCalls + 1
         /\ IF p.ok
            THEN /\ posted' = Append(posted, tverdict[t])
                 /\ Goto(t, "lock_slot") /\ UNCHANGED tret
            ELSE /\ Returns(t, InvalidInput("MCP post_review failed: " \o p.msg))
                 /\ UNCHANGED posted
    /\ UNCHANGED << backing, input, result_slot, cached, fetchCalls, fetchOks,
                    harnessVars, reviewVars, tcall, tverdict, slotLock,
                    cacheLock, arrivals >>

\* let mut slot = self.result_slot.write().await;
CLockSlot(t) ==
    /\ UNCHANGED extVars
    /\ tpc[t] = "lock_slot"
    /\ LockFree(slotLock)
    /\ slotLock' = t
    /\ arrivals' = Append(arrivals, t)
    /\ Goto(t, "check")
    /\ UNCHANGED << toolVars, harnessVars, reviewVars, tcall, tverdict, tret,
                    cacheLock >>

\* if slot.is_none()
CCheck(t) ==
    /\ UNCHANGED extVars
    /\ tpc[t] = "check"
    /\ Goto(t, IF IsNone(result_slot) THEN "write" ELSE "ack")
    /\ UNCHANGED << toolVars, harnessVars, reviewVars, tcall, tverdict, tret,
                    slotLock, cacheLock, arrivals >>

\* *slot = Some(result);
CWrite(t) ==
    /\ UNCHANGED extVars
    /\ tpc[t] = "write"
    /\ result_slot' = Some(tverdict[t])
    /\ Goto(t, "ack")
    /\ UNCHANGED << backing, input, cached, fetchCalls, fetchOks, postCalls,
                    posted, harnessVars, reviewVars, tcall, tverdict, tret,
                    slotLock, cacheLock, arrivals >>

\* Ok(ToolCallContent { text: .. }); the guard is dropped on return
CAck(t) ==
    /\ UNCHANGED extVars
    /\ tpc[t] = "ack"
    /\ slotLock' = 0
    /\ Returns(t, AckOf(backing))
    /\ UNCHANGED << toolVars, harnessVars, reviewVars, tcall, tverdict,
                    cacheLock, arrivals >>

\* let mut cached = self.cached.write().await; if cached.is_none()
CLockCache(t) ==
    /\ UNCHANGED extVars
    /\ tpc[t] = "lock_cache"
    /\ LockFree(cacheLock)
    /\ cacheLock' = t
    /\ Goto(t, IF CacheMiss(cached) THEN "fetch" ELSE "read")
    /\ UNCHANGED << toolVars, harnessVars, reviewVars, tcall, tverdict, tret,
                    slotLock, arrivals >>

\* let input = self.mcp.fetch(&self.pr).map_err(..)?; *cached = Some(input);
CFetch(t) ==
    /\ UNCHANGED extVars
    /\ tpc[t] = "fetch"
    /\ \E f \in FetchOutcomes :
         /\ fetchCalls' = fetchCalls + 1
         /\ IF f.ok
            THEN /\ fetchOks' = fetchOks + 1
                 /\ cached' = Some(f.input)
                 /\ Goto(t, "read")
                 /\ UNCHANGED << tret, cacheLock >>
            ELSE /\ Returns(t, InvalidInput("MCP fetch failed: " \o f.msg))
                 /\ cacheLock' = 0
                 /\ UNCHANGED << fetchOks, cached >>
    /\ UNCHANGED << backing, input, result_slot, postCalls, posted,
                    harnessVars, reviewVars, tcall, tverdict, slotLock,
                    arrivals >>

\* the read taking the bundle out of the cache
CRead_Clears(t) ==
    /\ UNCHANGED extVars
    /\ tpc[t] = "read"
    /\ Returns(t, Ok(get_part_from_input(cached.v, PartOf(tcall[t]))))
    /\ cached' = None
    /\ cacheLock' = 0
    /\ UNCHANGED << backing, input, result_slot, fetchCalls, fetchOks,
                    postCalls, posted, harnessVars, reviewVars, tcall,
                    tverdict, slotLock, arrivals >>

\* Self::get_part_from_input(cached.as_ref().unwrap(), part); guard dropped
CRead(t) ==
    /\ UNCHANGED extVars
    /\ tpc[t] = "read"
    /\ Returns(t, Ok(get_part_from_input(cached.v, PartOf(tcall[t]))))
    /\ cacheLock' = 0
    /\ UNCHANGED << toolVars, harnessVars, reviewVars, tcall, tverdict,
                    slotLock, arrivals >>

ConcNext ==
    \E t \in Tasks :
        \/ CStart(t) \/ CPost(t) \/ CLockSlot(t) \/ CCheck(t) \/ CWrite(t)
        \/ CAck(t) \/ CLockCache(t) \/ CFetch(t) \/ CRead(t)

ConcSpec == ConcInit /\ [][ConcNext]_vars

\* ---------------------------------------------------- ReviewPipeline::run
\* the PR/MR a run is asked to review
PrUrls ==
    { [platform |-> "GitHub", owner |-> "o", repo |-> "r", id |-> "7"],
      [platform |-> "GitLab", owner |-> "g", repo |-> "p", id |-> "12"],
      [platform |-> "GitHub", owner |-> "o", repo |-> "r", id |-> "8"] }

ProjectPaths == { None, Some("/tmp/repo") }

\* what AgentReviewer::review may return: a ReviewResult or a ReviewError
AgentOutcomes ==
    { OkVerdict(v) :
        v \in { [summary |-> "LGTM", line_comments |-> << >>],
                [summary |-> "nits",
                 line_comments |-> << [path |-> "a.rs", line |-> 1,
                                       body |-> "x"] >>],
                NoVerdict } }
    \cup { ReviewError(NOT_SUBMITTED), ReviewError("session failed") }

\* Ok(result)
PipelineOk(result) == [kind |-> "ok", result |-> result, message |-> ""]

\* PipelineError::Fetch / Review / Post wrapping the stage's error
PipelineError(variant, message) ==
    [kind |-> variant, result |-> NoVerdict, message |-> message]

\* the `?` taken as if the stage had succeeded
Try_Continue(ok, next) == next

\* `.map_err(..)?`: go on after Ok, return from run after Err
Try(ok, next) == IF ok THEN next ELSE "done"

\* a caller holding a pipeline (ReviewPipeline::new, with_project_path) calls
\* run(pr)
PipelineInit ==
    /\ backing = "mcp"
    /\ input = EmptyInput
    /\ result_slot = None
    /\ cached = None
    /\ fetchCalls = 0 /\ fetchOks = 0 /\ postCalls = 0 /\ posted = << >>
    /\ callsMade = 0 /\ lastCall = NoCall /\ lastResult = NoResult
    /\ lastEffect = NoEffect
    /\ listed = NoCatalog
    /\ ReviewIdle
    /\ ConcIdle
    /\ IsoIdle
    /\ ParseIdle
    /\ ppc = "fetch"
    /\ pr \in PrUrls
    /\ project_path \in ProjectPaths
    /\ fetched = None
    /\ reviewed = None
    /\ pipelineRet = NotRun
    /\ stages = << >>

\* let input = self.mcp.fetch(pr).map_err(PipelineError::Fetch)?;
RunFetch ==
    /\ UNCHANGED isoVars
    /\ ppc = "fetch"
    /\ \E f \in FetchOutcomes :
         /\ fetchCalls' = fetchCalls + 1
         /\ fetchOks' = fetchOks + (IF f.ok THEN 1 ELSE 0)
         /\ stages' = Append(stages, [op |-> "fetch", ok |-> f.ok, pr |-> pr,
                                      path |-> None, input |-> EmptyInput,
                                      result |-> NoVerdict, out |-> f])
         /\ fetched' = IF f.ok THEN Some(f.input) ELSE fetched
         /\ pipelineRet' = IF f.ok THEN pipelineRet
                           ELSE PipelineError("Fetch", f.msg)
         /\ ppc' = Try(f.ok, "review")
    /\ UNCHANGED << backing, input, result_slot, cached, postCalls, posted,
                    harnessVars, reviewVars, concVars, parseVars, pr,
                    project_path, reviewed >>

\* let result = self.agent.review(self.project_path.as_deref(), &input)
\*     .map_err(PipelineError::Review)?;
RunReview ==
    /\ UNCHANGED isoVars
    /\ ppc = "review"
    /\ \E a \in AgentOutcomes :
         /\ stages' = Append(stages, [op |-> "review", ok |-> a.kind = "ok",
                                      pr |-> NoPrUrl, path |-> project_path,
                                      input |-> fetched.v,
                                      result |-> NoVerdict, out |-> a])
         /\ reviewed' = IF a.kind = "ok" THEN Some(a.verdict) ELSE reviewed
         /\ pipelineRet' = IF a.kind = "ok" THEN pipelineRet
                           ELSE PipelineError("Review", a.message)
         /\ ppc' = Try(a.kind = "ok", "post")
    /\ UNCHANGED << toolVars, harnessVars, reviewVars, concVars, parseVars, pr,
                    project_path, fetched >>

\* self.mcp.post_review(pr, &result).map_err(PipelineError::Post)?; Ok(result)
RunPost ==
    /\ UNCHANGED isoVars
    /\ ppc = "post"
    /\ \E p \in PostOutcomes :
         /\ postCalls' = postCalls + 1
         /\ posted' = IF p.ok THEN Append(posted, reviewed.v) ELSE posted
         /\ stages' = Append(stages, [op |-> "post", ok |-> p.ok, pr |-> pr,
                                      path |-> None, input |-> EmptyInput,
                                      result |-> reviewed.v, out |-> p])
         /\ pipelineRet' = IF p.ok THEN PipelineOk(reviewed.v)
                           ELSE PipelineError("Post", p.msg)
         /\ ppc' = Try(p.ok, "done")
    /\ UNCHANGED << backing, input, result_slot, cached, fetchCalls, fetchOks,
                    harnessVars, reviewVars, concVars, parseVars, pr,
                    project_path, fetched, reviewed >>

PipelineNext == RunFetch \/ RunReview \/ RunPost

PipelineSpec == PipelineInit /\ [][PipelineNext]_vars

\* ------------------------------------------------------------ PrUrl::parse
\* A URL string is kept by its pieces: leading whitespace, the text up to and
\* including the first '/' after the host, the '/'-separated remainder and
\* trailing whitespace.  The remainder always has at least one piece: split
\* of the empty string yields one empty piece.
Hosts ==
    { "https://github.com/", "https://gitlab.com/", "http://github.com/" }

Segments == { "o", "pull", "-", "merge_requests", "" }

\* the URLs of at most n path pieces
Urls(n) ==
    { [lead |-> l, host |-> h, segs |-> sg, trail |-> tr] :
        l \in { "", " " }, h \in Hosts,
        sg \in UNION { [1..k -> Segments] : k \in 1..n },
        tr \in { "", " " } }

\* str::trim
trim(u) == [u EXCEPT !.lead = "", !.trail = ""]

\* url.strip_prefix(prefix) followed by rest.split('/').collect()
strip_prefix(u, prefix) ==
    IF u.lead = "" /\ u.host = prefix THEN Some(u.segs) ELSE None

\* parts.iter().position(|&p| p == x), counted from 1; 0 when there is none
position(parts, x) ==
    IF \E i \in 1..Len(parts) : parts[i] = x
    THEN CHOOSE i \in 1..Len(parts) :
            parts[i] = x /\ \A j \in 1..(i - 1) : parts[j] # x
    ELSE 0

\* Self { platform, owner, repo, id }
PrUrlOf(platform, owner, repo, id) ==
    [platform |-> platform, owner |-> owner, repo |-> repo, id |-> id]

\* PrUrl::parse
parse(u) ==
    LET t == trim(u)
        gh == strip_prefix(t, "https://github.com/")
        gl == strip_prefix(t, "https://gitlab.com/")
        pos == IF gl.some THEN position(gl.v, "-") ELSE 0
    IN IF gh.some /\ Len(gh.v) >= 4 /\ gh.v[3] = "pull"
       THEN Some(PrUrlOf("GitHub", gh.v[1], gh.v[2], gh.v[4]))
       ELSE IF /\ gl.some /\ pos # 0
               /\ pos + 2 <= Len(gl.v)
               /\ gl.v[pos + 1] = "merge_requests"
       THEN Some(PrUrlOf("GitLab", gl.v[1], gl.v[2], gl.v[pos + 2]))
       ELSE None

\* a caller holds a URL string
ParseInit ==
    /\ backing = "mcp"
    /\ input = EmptyInput
    /\ result_slot = None
    /\ cached = None
    /\ fetchCalls = 0 /\ fetchOks = 0 /\ postCalls = 0 /\ posted = << >>
    /\ callsMade = 0 /\ lastCall = NoCall /\ lastResult = NoResult
    /\ lastEffect = NoEffect
    /\ listed = NoCatalog
    /\ ReviewIdle
    /\ ConcIdle
    /\ IsoIdle
    /\ PipelineIdle
    /\ url \in Urls(MaxSegments)
    /\ parsed = [done |-> FALSE, value |-> None]

\* PrUrl::parse(url)
Parse ==
    /\ UNCHANGED isoVars
    /\ ~parsed.done
    /\ parsed' = [done |-> TRUE, value |-> parse(url)]
    /\ UNCHANGED << toolVars, harnessVars, reviewVars, concVars, pipeVars, url >>

ParseNext == Parse

ParseSpec == ParseInit /\ [][ParseNext]_vars

\* ------------------------------------- several reviews on one agent
\* LangGraphReviewAgent is Send + Sync: review(&self, ..) may run on several
\* threads at once.  The reviews share self.llm and self.mcp; the slot and
\* the cache are cells each run_review allocates.

\* every allocation returning the same cell
Arc_new_Shared(r) == 1

\* Arc::new(RwLock::new(None)): a cell no other allocation returned; the
\* r-th invocation gets cell r
Arc_new(r) == r

\* the PR/MR review r is asked about and what the provider holds for it
ContentOf(r) ==
    [title |-> "PR " \o ToString(r), description |-> "",
     diff |-> "+" \o ToString(r), files |-> << >>]

\* McpProvider::fetch(&self.pr) for the PR of review r
IsoFetchOutcomes(r) ==
    { [ok |-> TRUE, input |-> ContentOf(r), msg |-> ""],
      [ok |-> FALSE, input |-> EmptyInput, msg |-> "timeout"] }

IsoSubmit(summary) == MkCall(TOOL_SUBMIT_REVIEW, JAbsent, JStr(summary), LcAbsent)

\* the tool calls the decision-maker may propose in review r
IsoResponses(r) ==
    LET get == MkCall(TOOL_GET_PR_CONTEXT, JStr("diff"), JAbsent, LcAbsent)
        first == IsoSubmit("s" \o ToString(r))
        second == IsoSubmit("t" \o ToString(r))
    IN { << >>, << get >>, << first >>, << get, first >>, << first, second >> }

\* one agent, no review running
IsoInit ==
    /\ backing = "mcp"
    /\ input = EmptyInput
    /\ result_slot = None
    /\ cached = None
    /\ fetchCalls = 0 /\ fetchOks = 0 /\ postCalls = 0 /\ posted = << >>
    /\ callsMade = 0 /\ lastCall = NoCall /\ lastResult = NoResult
    /\ lastEffect = NoEffect
    /\ listed = NoCatalog
    /\ ReviewIdle
    /\ ConcIdle
    /\ PipelineIdle
    /\ ParseIdle
    /\ IsoIdle

IsoFrame ==
    UNCHANGED << toolVars, harnessVars, reviewVars, concVars, pipeVars,
                 parseVars >>

\* run_review entered: the slot, McpReviewToolSource::new, the graph
IsoStart(r) ==
    /\ rpc[r] = "idle"
    /\ rslot' = [rslot EXCEPT ![r] = Arc_new(r)]
    /\ slots' = [slots EXCEPT ![Arc_new(r)] = None]
    /\ rcached' = [rcached EXCEPT ![r] = Arc_new(r)]
    /\ caches' = [caches EXCEPT ![Arc_new(r)] = None]
    /\ rpc' = [rpc EXCEPT ![r] = add_edge("START")]
    /\ UNCHANGED << rcalls, rlog, rinvoked, routcome >>
    /\ IsoFrame

\* node "think" of review r
IsoThink(r) ==
    /\ rpc[r] = "think"
    /\ \E cs \in IsoResponses(r) : rcalls' = [rcalls EXCEPT ![r] = cs]
    /\ rpc' = [rpc EXCEPT ![r] = add_edge("think")]
    /\ UNCHANGED << slots, caches, rslot, rcached, rlog, rinvoked, routcome >>
    /\ IsoFrame

\* node "think" of review r when LlmClient::invoke fails
IsoThinkFail(r) ==
    /\ rpc[r] = "think"
    /\ rinvoked' = [rinvoked EXCEPT ![r] =
                       [done |-> TRUE, ok |-> FALSE,
                        message |-> "llm unreachable"]]
    /\ rpc' = [rpc EXCEPT ![r] = "returned"]
    /\ UNCHANGED << slots, caches, rslot, rcached, rcalls, rlog, routcome >>
    /\ IsoFrame

\* node "act" of review r: the next pending call, executed by the review's
\* own McpReviewToolSource on the cells it holds
IsoAct(r) ==
    /\ rpc[r] = "act"
    /\ Len(rlog[r]) < Len(rcalls[r])
    /\ LET call == rcalls[r][Len(rlog[r]) + 1]
           slot == slots[rslot[r]]
           cache == caches[rcached[r]]
           fs == IF call.name = TOOL_GET_PR_CONTEXT /\ CacheMiss(cache)
                 THEN IsoFetchOutcomes(r)
                 ELSE { CHOOSE f \in IsoFetchOutcomes(r) : ~f.ok }
           ps == IF call.name = TOOL_SUBMIT_REVIEW
                 THEN PostOutcomes
                 ELSE { CHOOSE p \in PostOutcomes : ~p.ok }
       IN \E f \in fs, p \in ps :
            LET e == McpCallTool(call, slot, cache, f, p)
            IN /\ slots' = [slots EXCEPT ![rslot[r]] = e.slot]
               /\ caches' = [caches EXCEPT ![rcached[r]] = e.cached]
               /\ rlog' = [rlog EXCEPT ![r] =
                             Append(@, [call |-> call, result |-> e.result,
                                        fetch |-> e.fetch, post |-> e.post,
                                        verdict |-> e.verdict])]
    /\ UNCHANGED << rslot, rcached, rpc, rcalls, rinvoked, routcome >>
    /\ IsoFrame

\* review r: every call executed, then node "observe", then END
IsoObserve(r) ==
    /\ rpc[r] = "act"
    /\ Len(rlog[r]) = Len(rcalls[r])
    /\ rinvoked' = [rinvoked EXCEPT ![r] =
                       [done |-> TRUE, ok |-> TRUE, message |-> ""]]
    /\ rpc' = [rpc EXCEPT ![r] = add_edge(add_edge("act"))]
    /\ UNCHANGED << slots, caches, rslot, rcached, rcalls, rlog, routcome >>
    /\ IsoFrame

\* review r: slot.read() and the value run_review returns
IsoReturn(r) ==
    /\ rpc[r] = "returned"
    /\ routcome' = [routcome EXCEPT ![r] =
                       ReviewOutcome(rinvoked[r], slots[rslot[r]])]
    /\ rpc' = [rpc EXCEPT ![r] = "done"]
    /\ UNCHANGED << slots, caches, rslot, rcached, rcalls, rlog, rinvoked >>
    /\ IsoFrame

IsoNext ==
    \E r \in Reviews :
        \/ IsoStart(r) \/ IsoThink(r) \/ IsoThinkFail(r) \/ IsoAct(r)
        \/ IsoObserve(r) \/ IsoReturn(r)

IsoSpec == IsoInit /\ [][IsoNext]_vars

\* ================================================================ claims

\* C1 (ConcSpec): single assignment of the result slot.  Under every
\* interleaving of submit_review executions the slot holds the verdict of the
\* first execution that reached the slot, it never changes once it is
\* non-empty, and every execution that reached the slot returns the fixed
\* acknowledgement.
C1_SingleAssignment ==
    /\ [][result_slot.some => result_slot' = result_slot]_vars
    /\ [](/\ result_slot.some => arrivals # << >>
          /\ (arrivals # << >> /\ tpc[arrivals[1]] \in { "ack", "done" })
                => result_slot = Some(tverdict[arrivals[1]])
          /\ \A i \in 1..Len(arrivals) :
                tpc[arrivals[i]] = "done" => tret[arrivals[i]] = AckOf(backing))

\* two submissions with different verdicts have both returned; the slot holds
\* the first one's verdict and the second one was acknowledged
C1_Witness ==
    \E t, u \in Tasks :
        /\ Len(arrivals) >= 2 /\ arrivals[1] = t /\ arrivals[2] = u
        /\ tpc[t] = "done" /\ tpc[u] = "done"
        /\ tverdict[t] # tverdict[u]
        /\ tret[u] = AckOf(backing)
        /\ result_slot = Some(tverdict[t])

\* C2 (Spec): exactly-once-or-explicit-failure delivery.  A review never
\* publishes more than one verdict through post_review, and a review that
\* returns a verdict has published exactly that verdict, once.
C2_ExactlyOnceDelivery ==
    /\ Len(posted) <= 1
    /\ pc = "done" =>
         \/ outcome.kind = "err"
         \/ outcome.kind = "ok" /\ posted = << outcome.verdict >>

\* C3 as stated (ConcSpec): any number of get_pr_context calls trigger at most
\* one call of the provider's fetch.
C3_FetchAtMostOnce == fetchCalls <= 1

\* C3 amended (ConcSpec): at most one fetch succeeds, and once the cache is
\* filled the provider's fetch is never called again.
C3_AtMostOneSuccessfulFetch ==
    /\ [](fetchOks <= 1)
    /\ [](cached.some <=> fetchOks = 1)
    /\ [][cached.some => fetchCalls' = fetchCalls]_vars

\* two get_pr_context calls returned: the fetch of the first failed, the
\* second fetched again and was answered
C3_Witness ==
    /\ backing = "mcp"
    /\ fetchCalls = 2 /\ fetchOks = 1
    /\ \E t, u \in Tasks :
          /\ tcall[t].name = TOOL_GET_PR_CONTEXT /\ tpc[t] = "done"
          /\ tret[t] = InvalidInput("MCP fetch failed: timeout")
          /\ tcall[u].name = TOOL_GET_PR_CONTEXT /\ tpc[u] = "done"
          /\ tret[u].ok

\* C4 (Spec): no-submission outcome.  When the graph run ends without error
\* and no submit_review call succeeded, the slot is empty and run_review
\* returns the "did not call submit_review" error, never a verdict; when the
\* run ends without error and the slot is filled, run_review returns exactly
\* the slot's verdict.
C4_NoSubmissionOutcome ==
    LET submitted == \E i \in 1..Len(log) :
                        /\ log[i].call.name = TOOL_SUBMIT_REVIEW
                        /\ log[i].result.ok
    IN /\ (pc \in { "returned", "done" } /\ invoked.ok /\ ~submitted)
            => result_slot = None
       /\ (pc = "done" /\ invoked.ok /\ ~submitted)
            => /\ outcome.kind = "err"
               /\ outcome.message = "review agent did not call submit_review"
       /\ (pc = "done" /\ invoked.ok /\ result_slot.some)
            => /\ outcome.kind = "ok"
               /\ outcome.verdict = result_slot.v
       /\ (pc = "done" /\ outcome.kind = "ok") => submitted

\* a review that called get_pr_context and a submit_review without summary,
\* and returned the non-compliance error
C4_Witness ==
    /\ pc = "done" /\ invoked.ok
    /\ Len(log) = 2
    /\ log[1].call.name = TOOL_GET_PR_CONTEXT /\ log[1].result.ok
    /\ log[2].call.name = TOOL_SUBMIT_REVIEW /\ ~log[2].result.ok
    /\ outcome.kind = "err"
    /\ outcome.message = "review agent did not call submit_review"

\* C5 (Spec): recoverable tool failures.  Every proposed call is executed and
\* recorded in order, a failed one as a tool result carrying the failure text;
\* a failed call never makes the graph run fail; a submit_review without
\* summary fails with "missing summary", and the review returns the verdict of
\* the first submit_review that has a summary and is published, also when
\* failed calls precede it.
C5_RecoverableToolFailures ==
    LET wellFormed(i) == /\ log[i].call.name = TOOL_SUBMIT_REVIEW
                         /\ log[i].call.summary.k = "str"
                         /\ log[i].post = "ok"
        malformed(i) == /\ log[i].call.name = TOOL_SUBMIT_REVIEW
                        /\ log[i].call.summary.k # "str"
    IN /\ pc \in { "act", "observe" } =>
            /\ Len(log) = Len(tool_results)
            /\ \A i \in 1..Len(log) :
                  /\ log[i].call = tool_calls[i]
                  /\ tool_results[i].ok = log[i].result.ok
                  /\ ~log[i].result.ok =>
                        tool_results[i].content =
                           log[i].result.err \o ": " \o log[i].result.text
       /\ pc = "observe" => Len(log) = Len(tool_calls)
       /\ (invoked.done /\ log # << >>) => invoked.ok
       /\ \A i \in 1..Len(log) :
             malformed(i) =>
                /\ log[i].result = InvalidInput("submit_review: missing summary")
                /\ log[i].slotAfter = log[i].slotBefore
       /\ pc = "done" =>
            \A j \in 1..Len(log) :
               (wellFormed(j) /\ \A i \in 1..(j - 1) : ~wellFormed(i))
                  => /\ outcome.kind = "ok"
                     /\ outcome.verdict.summary = log[j].call.summary.s
                     /\ outcome.verdict = log[j].verdict

\* a submit_review without summary failed, the next submit_review succeeded
\* and the review returned its verdict
C5_Witness ==
    /\ pc = "done"
    /\ Len(log) >= 2
    /\ log[1].result = InvalidInput("submit_review: missing summary")
    /\ log[2].call.name = TOOL_SUBMIT_REVIEW /\ log[2].result.ok
    /\ outcome.kind = "ok" /\ outcome.verdict = log[2].verdict

\* C6 (Spec): a decision-maker failure is fatal.  Once LlmClient::invoke has
\* failed it is not called again, no tool call is executed, the provider is
\* not called, and run_review returns an error carrying the failure, never a
\* verdict.
C6_DecisionMakerFailureFatal ==
    (invoked.done /\ ~invoked.ok) =>
        /\ thinks = 1
        /\ pc \in { "returned", "done" }
        /\ log = << >> /\ tool_results = << >>
        /\ fetchCalls = 0 /\ postCalls = 0
        /\ result_slot = None
        /\ pc = "done" =>
              /\ outcome.kind = "err"
              /\ outcome.message = AgentErrorToString(invoked.message)
              /\ outcome.message # "review agent did not call submit_review"

\* run_review returned after the decision-maker failed
C6_Witness ==
    /\ pc = "done" /\ invoked.done /\ ~invoked.ok
    /\ thinks = 1 /\ log = << >>
    /\ outcome.kind = "err"
    /\ outcome.message = "execution failed: llm unreachable"

C8_MissingSummaryNoEffect ==
    (lastCall.name = TOOL_SUBMIT_REVIEW /\ lastCall.summary.k # "str") =>
        /\ lastResult = [ok |-> FALSE, err |-> "InvalidInput",
                         text |-> "submit_review: missing summary"]
        /\ result_slot = lastEffect.slotBefore
        /\ cached = lastEffect.cachedBefore
        /\ lastEffect.post = "none"
        /\ lastEffect.fetch = "none"

\* a provider-backed submit_review with a numeric summary and a valid line
\* comment was rejected on an empty slot
C8_Witness ==
    /\ backing = "mcp"
    /\ lastCall.name = TOOL_SUBMIT_REVIEW
    /\ lastCall.summary = JNum(5)
    /\ lastCall.line_comments = LcArr(<< GoodA >>)
    /\ lastResult.err = "InvalidInput"
    /\ result_slot = None /\ postCalls = 0

\* C9 (ToolSpec): submission writes the verdict.  On a ReviewToolSource with
\* an empty slot, a submit_review call with a string summary succeeds and the
\* slot then holds the summary and exactly the entries of the line_comments
\* argument that have a non-empty path, a line >= 1 and a non-empty body, in
\* their original order (none when line_comments is absent).
C9_SubmissionWritesVerdict ==
    LET retained(e) == /\ e.path.k = "str" /\ e.path.s # ""
                       /\ e.line.k = "num" /\ e.line.n >= 1
                       /\ e.body.k = "str" /\ e.body.s # ""
        kept == SelectSeq(lastCall.line_comments.items, retained)
    IN (/\ backing = "memory"
        /\ lastCall.name = TOOL_SUBMIT_REVIEW
        /\ lastCall.summary.k = "str"
        /\ lastEffect.slotBefore = None)
       => /\ lastResult.ok
          /\ result_slot.some
          /\ result_slot.v.summary = lastCall.summary.s
          /\ result_slot.v.line_comments =
                [i \in 1..Len(kept) |->
                    [path |-> kept[i].path.s, line |-> kept[i].line.n,
                     body |-> kept[i].body.s]]

\* C10 (ToolSpec): comment filtering.  The verdict built from a list of
\* LineCommentInput entries holds exactly the entries that have none of
\* line < 1, empty path, empty body, in their original order; filtering the
\* filtered list again changes nothing; every comment of a stored verdict has
\* a non-empty path, a line >= 1 and a non-empty body.
C10_CommentFiltering ==
    LET typed == unwrap_or_default(from_value(lastCall.line_comments))
        dropped(c) == c.line < 1 \/ c.path = "" \/ c.body = ""
        stays(c) == ~dropped(c)
    IN /\ (lastCall.name = TOOL_SUBMIT_REVIEW /\ lastCall.summary.k = "str")
            => /\ lastEffect.verdict.line_comments = SelectSeq(typed, stays)
               /\ filter_map(filter_map(typed)) = filter_map(typed)
       /\ result_slot.some =>
            \A i \in 1..Len(result_slot.v.line_comments) :
                LET c == result_slot.v.line_comments[i]
                IN c.path # "" /\ c.line >= 1 /\ c.body # ""

\* a payload of a line-0 entry followed by a valid one was filtered to the
\* valid one and stored
C10_Witness ==
    /\ lastCall.name = TOOL_SUBMIT_REVIEW
    /\ lastCall.line_comments = LcArr(<< ZeroLine, GoodB >>)
    /\ lastEffect.slotBefore = None
    /\ result_slot.some
    /\ result_slot.v.line_comments = << [path |-> "b.rs", line |-> 2, body |-> "y"] >>

\* the part asked for is none of title, description, diff, files
UnknownPartCall ==
    /\ lastCall.name = TOOL_GET_PR_CONTEXT
    /\ ~(lastCall.part.k = "str"
          /\ lastCall.part.s \in { "title", "description", "diff", "files" })

\* C11 (ToolSpec): unknown part is lenient.  A get_pr_context call with an
\* unknown, missing or non-string part always returns a successful "Unknown
\* part" text, for both tool sources, whatever the cache holds and whatever
\* the provider answers.
C11_UnknownPartLenient ==
    UnknownPartCall =>
        /\ lastResult.ok
        /\ lastResult.text =
              "Unknown part: "
                 \o (IF lastCall.part.k = "str" THEN lastCall.part.s ELSE "")

\* C12 (ToolSpec): unknown tool name.  A call_tool whose name is neither
\* get_pr_context nor submit_review returns NotFound carrying that name and
\* has no side effect: slot and cache are as before and neither fetch nor
\* post_review is called, for both tool sources.
C12_UnknownToolName ==
    (lastCall # NoCall
     /\ lastCall.name \notin { "get_pr_context", "submit_review" }) =>
        /\ lastResult = [ok |-> FALSE, err |-> "NotFound",
                         text |-> lastCall.name]
        /\ result_slot = lastEffect.slotBefore
        /\ cached = lastEffect.cachedBefore
        /\ lastEffect.fetch = "none"
        /\ lastEffect.post = "none"

\* after a published submission filled the slot, a call of "merge_pr" on the
\* provider-backed source was answered NotFound and nothing changed
C12_Witness ==
    /\ backing = "mcp"
    /\ callsMade = 2
    /\ lastCall.name = "merge_pr"
    /\ lastResult = [ok |-> FALSE, err |-> "NotFound", text |-> "merge_pr"]
    /\ result_slot.some /\ lastEffect.slotBefore = result_slot
    /\ postCalls = 1 /\ fetchCalls = 0

\* C13 (PipelineSpec): stage order and short-circuit of ReviewPipeline::run.
\* run calls fetch, then the agent's review, then post_review, each at most
\* once and each only after the one before succeeded; review gets the fetched
\* content and post_review the verdict review returned; a failed fetch
\* returns PipelineError::Fetch, a failed review PipelineError::Review, a
\* failed post PipelineError::Post, each with the stage's message; run returns
\* the verdict only after all three succeeded.
C13_PipelineOrder ==
    LET order == << "fetch", "review", "post" >>
        n == Len(stages)
    IN /\ n <= 3
       /\ \A i \in 1..n :
             /\ stages[i].op = order[i]
             /\ i > 1 => stages[i - 1].ok
       /\ n = fetchCalls + postCalls + (IF n >= 2 THEN 1 ELSE 0)
       /\ fetchCalls <= 1 /\ postCalls <= 1
       /\ ppc = "review" => (n = 1 /\ stages[1].ok)
       /\ ppc = "post" => (n = 2 /\ stages[2].ok)
       /\ n >= 2 => (stages[2].input = stages[1].out.input
                     /\ stages[2].path = project_path)
       /\ n >= 3 => (stages[3].result = stages[2].out.verdict
                     /\ stages[3].pr = pr)
       /\ ppc # "done" => pipelineRet.kind = "none"
       /\ ppc = "done" =>
             /\ n >= 1
             /\ ~stages[n].ok =>
                   /\ pipelineRet.kind = << "Fetch", "Review", "Post" >>[n]
                   /\ pipelineRet.message =
                         (IF n = 2 THEN stages[n].out.message
                          ELSE stages[n].out.msg)
             /\ stages[n].ok =>
                   /\ n = 3
                   /\ pipelineRet.kind = "ok"
                   /\ pipelineRet.result = stages[2].out.verdict
             /\ pipelineRet.kind = "ok" => posted = << pipelineRet.result >>
             /\ pipelineRet.kind # "ok" => posted = << >>

\* a run whose fetch succeeded and whose review failed returned
\* PipelineError::Review without calling post_review
C13_Witness ==
    /\ ppc = "done"
    /\ Len(stages) = 2
    /\ stages[1].op = "fetch" /\ stages[1].ok
    /\ stages[2].op = "review" /\ ~stages[2].ok
    /\ pipelineRet.kind = "Review"
    /\ pipelineRet.message = "session failed"
    /\ postCalls = 0

\* C14 (ParseSpec): strict URL recognition.  PrUrl::parse returns a PrUrl
\* only for https://github.com/<owner>/<repo>/pull/<id> or
\* https://gitlab.com/<owner>/<repo>/-/merge_requests/<id>, with no further
\* or intermediate path segment; every other input yields None.
C14_StrictUrlRecognition ==
    (parsed.done /\ parsed.value.some) =>
        \/ /\ url.host = "https://github.com/"
           /\ Len(url.segs) = 4
           /\ url.segs[3] = "pull"
           /\ parsed.value.v = [platform |-> "GitHub", owner |-> url.segs[1],
                                repo |-> url.segs[2], id |-> url.segs[4]]
        \/ /\ url.host = "https://gitlab.com/"
           /\ Len(url.segs) = 5
           /\ url.segs[3] = "-" /\ url.segs[4] = "merge_requests"
           /\ parsed.value.v = [platform |-> "GitLab", owner |-> url.segs[1],
                                repo |-> url.segs[2], id |-> url.segs[5]]

\* C15 (ConcSpec): serialized check-and-set.  Under every interleaving of
\* submit_review executions on one slot, at most one execution at a time is
\* between its emptiness check and its return, and it holds the slot's write
\* lock; an execution about to write still finds the slot empty; the slot
\* only ever changes from empty to filled, and it is filled once the first
\* execution that locked it has passed its write.
C15_SerializedCheckAndSet ==
    /\ [](Cardinality({ t \in Tasks :
                          tpc[t] \in { "check", "write", "ack" } }) <= 1)
    /\ [](\A t \in Tasks :
            tpc[t] \in { "check", "write", "ack" } => slotLock = t)
    /\ [](\A t \in Tasks : tpc[t] = "write" => result_slot = None)
    /\ [][result_slot' # result_slot
            => (result_slot = None /\ result_slot'.some)]_vars
    /\ []((arrivals # << >> /\ tpc[arrivals[1]] \in { "ack", "done" })
            => result_slot.some)

\* of two overlapping submissions with different verdicts the first has
\* written and returned; the second holds the lock, found the slot filled and
\* is about to return without writing
C15_Witness ==
    \E t, u \in Tasks :
        /\ arrivals = << t, u >>
        /\ tpc[t] = "done" /\ tpc[u] = "ack"
        /\ slotLock = u
        /\ tverdict[t] # tverdict[u]
        /\ result_slot = Some(tverdict[t])

\* C16 (Spec): loop continuation and termination rule.  After Observe the
\* loop goes back to Think for another round unless the calls of this round
\* included a submit_review with valid input (a string summary); so a
\* decision-maker that only calls get_pr_context in a round is asked again
\* and can submit in a later round.
C16_LoopContinuation ==
    [][(/\ pc = "observe"
        /\ tool_calls # << >>
        /\ ~\E i \in 1..Len(tool_calls) :
               /\ tool_calls[i].name = TOOL_SUBMIT_REVIEW
               /\ tool_calls[i].summary.k = "str")
       => pc' = "think"]_vars

\* C17 (ToolSpec): a failed fetch does not populate the cache.  A
\* get_pr_context call whose fetch fails returns InvalidInput carrying the
\* provider's message and leaves the cache empty and the slot as it was; the
\* cache is filled only by a successful fetch; and every get_pr_context call
\* made on the provider-backed source while the cache is empty calls fetch.
C17_FailedFetchNotCached ==
    /\ []((lastCall.name = TOOL_GET_PR_CONTEXT /\ lastEffect.fetch = "err") =>
            /\ lastResult = [ok |-> FALSE, err |-> "InvalidInput",
                             text |-> "MCP fetch failed: timeout"]
            /\ lastEffect.cachedBefore = None
            /\ cached = None
            /\ result_slot = lastEffect.slotBefore)
    /\ [](cached.some <=> fetchOks >= 1)
    /\ [][(/\ backing = "mcp"
            /\ cached = None
            /\ callsMade' = callsMade + 1
            /\ lastCall'.name = TOOL_GET_PR_CONTEXT)
           => fetchCalls' = fetchCalls + 1]_vars

\* the fetch of a first get_pr_context call failed; the second call fetched
\* again and returned the diff of the fetched content
C17_Witness ==
    /\ backing = "mcp"
    /\ callsMade = 2
    /\ fetchCalls = 2 /\ fetchOks = 1
    /\ lastCall.name = TOOL_GET_PR_CONTEXT
    /\ lastCall.part = JStr("diff")
    /\ lastEffect.fetch = "ok" /\ lastEffect.cachedBefore = None
    /\ cached.some
    /\ lastResult = Ok(cached.v.diff)

\* C18 (ConcSpec): cache stability.  Once a fetch has succeeded the cached
\* bundle is never replaced or cleared and the provider's fetch is not called
\* again; every get_pr_context execution that returned a text returned the
\* requested part of the cached bundle, and an execution reading the cache
\* holds its lock.
C18_CacheStability ==
    /\ [][cached.some => (cached' = cached /\ fetchCalls' = fetchCalls
                            /\ fetchOks' = fetchOks)]_vars
    /\ [](\A t \in Tasks :
            tpc[t] = "read" => (cached.some /\ cacheLock = t))
    /\ [](\A t \in Tasks :
            (/\ backing = "mcp"
             /\ tcall[t].name = TOOL_GET_PR_CONTEXT
             /\ tpc[t] = "done"
             /\ tret[t].ok)
            => /\ cached.some
               /\ tret[t].text =
                     (IF tcall[t].part = JStr("diff") THEN cached.v.diff
                      ELSE IF tcall[t].part = JStr("title") THEN cached.v.title
                      ELSE IF tcall[t].part = JStr("description")
                           THEN cached.v.description
                      ELSE IF tcall[t].part = JStr("files")
                           THEN join(cached.v.files)
                      ELSE "Unknown part: " \o tcall[t].part.s))

\* two get_pr_context executions asked for the diff: one fetch was made and
\* both returned the diff of the one cached bundle
C18_Witness ==
    /\ backing = "mcp"
    /\ fetchCalls = 1 /\ fetchOks = 1
    /\ cached.some
    /\ \A t \in { 1, 2 } :
          /\ tcall[t].name = TOOL_GET_PR_CONTEXT
          /\ tcall[t].part = JStr("diff")
          /\ tpc[t] = "done"
          /\ tret[t] = Ok(cached.v.diff)

\* C19 (ToolSpec): lenient line-comment payload.  A submit_review call with
\* a string summary is never rejected because of its line_comments payload,
\* and every entry of the payload that has a non-empty path, a line >= 1 and
\* a non-empty body is in the verdict the call built, also when other
\* entries of the payload are malformed.
C19_LenientPayload ==
    (lastCall.name = TOOL_SUBMIT_REVIEW /\ lastCall.summary.k = "str") =>
        /\ lastEffect.post # "err" => lastResult.ok
        /\ lastEffect.verdict.summary = lastCall.summary.s
        /\ \A i \in 1..Len(lastCall.line_comments.items) :
              LET e == lastCall.line_comments.items[i]
              IN (/\ e.path.k = "str" /\ e.path.s # ""
                  /\ e.line.k = "num" /\ e.line.n >= 1
                  /\ e.body.k = "str" /\ e.body.s # "")
                 => \E j \in 1..Len(lastEffect.verdict.line_comments) :
                       lastEffect.verdict.line_comments[j] =
                          [path |-> e.path.s, line |-> e.line.n,
                           body |-> e.body.s]

\* C20 (Spec): ordering guarantees.  Think starts only when no round is in
\* progress (no pending calls, no results not yet observed); the calls of a
\* round are executed one at a time in the order proposed; Observe starts
\* only after every call has its result; and the tool results appended to the
\* conversation are those of the calls, in the order of the calls.
C20_OrderingGuarantees ==
    /\ [](pc = "think" => (tool_calls = << >> /\ tool_results = << >>))
    /\ [][thinks' # thinks
            => (pc = "think" /\ tool_results = << >> /\ log = << >>)]_vars
    /\ [][log' # log
            => /\ pc = "act"
               /\ Len(log') = Len(log) + 1
               /\ SubSeq(log', 1, Len(log)) = log
               /\ log'[Len(log')].call = tool_calls[Len(log) + 1]]_vars
    /\ [](pc \in { "act", "observe" } =>
            /\ Len(tool_results) = Len(log)
            /\ Len(log) <= Len(tool_calls)
            /\ \A i \in 1..Len(log) :
                  /\ log[i].call = tool_calls[i]
                  /\ tool_results[i].name = tool_calls[i].name
                  /\ tool_results[i].content =
                        (IF log[i].result.ok THEN log[i].result.text
                         ELSE log[i].result.err \o ": " \o log[i].result.text))
    /\ [](pc = "observe" => Len(tool_results) = Len(tool_calls))
    /\ []((invoked.done /\ invoked.ok) =>
            /\ Len(messages) = 3 + Len(log)
            /\ messages[3].role = "assistant"
            /\ \A i \in 1..Len(log) :
                  /\ messages[3 + i].role = "tool"
                  /\ messages[3 + i].content =
                        (IF log[i].result.ok THEN log[i].result.text
                         ELSE log[i].result.err \o ": " \o log[i].result.text))

\* a round of three calls (get_pr_context, an unknown tool, submit_review)
\* was executed in that order and the conversation ends with their three
\* results in that order
C20_Witness ==
    /\ pc = "done" /\ invoked.ok
    /\ Len(log) = 3
    /\ log[1].call.name = TOOL_GET_PR_CONTEXT /\ log[1].fetch = "ok"
    /\ log[2].call.name = "merge_pr"
    /\ log[3].call.name = TOOL_SUBMIT_REVIEW /\ log[3].post = "ok"
    /\ Len(messages) = 6
    /\ messages[4].content = cached.v.diff
    /\ messages[5] = [role |-> "tool", content |-> "NotFound: merge_pr"]
    /\ messages[6] = [role |-> "tool",
                      content |-> "Review submitted and posted via MCP."]

\* C21 (IsoSpec): per-review isolation.  Every run_review allocates a slot
\* cell and a cache cell that no other review holds, both empty; a step of one
\* review never changes the slot or the cache of another review; a review's
\* slot only ever holds a verdict one of its own submit_review calls
\* published, its cache only content its own get_pr_context fetched, and the
\* verdict a review returns is one it submitted itself.
C21_PerReviewIsolation ==
    /\ [](\A r, q \in Reviews :
            (r # q /\ rpc[r] # "idle" /\ rpc[q] # "idle")
               => (rslot[r] # rslot[q] /\ rcached[r] # rcached[q]))
    /\ [][\A r \in Reviews :
            (rpc[r] = "idle" /\ rpc'[r] # "idle")
               => /\ slots[rslot'[r]] = Free /\ caches[rcached'[r]] = Free
                  /\ slots'[rslot'[r]] = None /\ caches'[rcached'[r]] = None]_vars
    /\ [][\A r \in Reviews :
            (rpc[r] # "idle" /\ rpc'[r] = rpc[r] /\ rlog'[r] = rlog[r])
               => /\ rslot'[r] = rslot[r] /\ rcached'[r] = rcached[r]
                  /\ slots'[rslot[r]] = slots[rslot[r]]
                  /\ caches'[rcached[r]] = caches[rcached[r]]]_vars
    /\ [](\A r \in Reviews :
            rpc[r] # "idle"
               => /\ slots[rslot[r]].some
                       => \E i \in 1..Len(rlog[r]) :
                             /\ rlog[r][i].post = "ok"
                             /\ rlog[r][i].verdict = slots[rslot[r]].v
                  /\ caches[rcached[r]].some
                       => /\ \E i \in 1..Len(rlog[r]) : rlog[r][i].fetch = "ok"
                          /\ caches[rcached[r]].v.diff = "+" \o ToString(r))
    /\ [](\A r \in Reviews :
            routcome[r].kind = "ok"
               => \E i \in 1..Len(rlog[r]) :
                     /\ rlog[r][i].call.name = TOOL_SUBMIT_REVIEW
                     /\ rlog[r][i].post = "ok"
                     /\ rlog[r][i].verdict = routcome[r].verdict)

\* two reviews are both in their act node: the first has stored its verdict
\* and fetched nothing, the second has fetched its content and stored nothing
C21_Witness ==
    /\ rpc[1] = "act" /\ rpc[2] = "act"
    /\ slots[rslot[1]] = Some([summary |-> "s1", line_comments |-> << >>])
    /\ caches[rcached[1]] = None
    /\ slots[rslot[2]] = None
    /\ caches[rcached[2]].some
    /\ caches[rcached[2]].v.diff = "+2"

\* C22 (Spec): read after halt.  run_review reads the slot at most once,
\* only after the graph run has ended without error and with no tool call
\* pending or executing; no tool call is executed after the read; the read
\* does not change the slot and its value is what run_review returns; after
\* a graph run that ended with an error the slot is not read and an error is
\* returned.
C22_ReadAfterHalt ==
    /\ [](reads <= 1)
    /\ [][reads' # reads
            => /\ reads = 0 /\ reads' = 1
               /\ pc = "returned"
               /\ invoked.done /\ invoked.ok
               /\ tool_calls = << >> /\ tool_results = << >>
               /\ result_slot' = result_slot
               /\ outcome' = (IF result_slot.some
                              THEN [kind |-> "ok", verdict |-> result_slot.v,
                                    message |-> ""]
                              ELSE [kind |-> "err", verdict |-> NoVerdict,
                                    message |->
                                      "review agent did not call submit_review"])
      ]_vars
    /\ [][(log' # log \/ result_slot' # result_slot)
            => (reads = 0 /\ reads' = 0)]_vars
    /\ [](pc = "done" => reads = (IF invoked.ok THEN 1 ELSE 0))
    /\ []((pc = "done" /\ ~invoked.ok)
            => (reads = 0 /\ outcome.kind = "err"))

\* a review whose graph run ended normally after a published submission
\* read the slot once and returned its verdict
C22_Witness ==
    /\ pc = "done" /\ invoked.ok
    /\ reads = 1
    /\ Len(log) = 2
    /\ log[2].call.name = TOOL_SUBMIT_REVIEW /\ log[2].post = "ok"
    /\ outcome.kind = "ok" /\ outcome.verdict = result_slot.v

C24_PublishedEqualsStored ==
    (invoked.done /\ invoked.ok)
       => \A k \in 1..Len(posted) :
             result_slot.some /\ posted[k] = result_slot.v

C26_FrameConditions ==
    /\ [][(callsMade' # callsMade /\ lastCall'.name = TOOL_GET_PR_CONTEXT)
            => (/\ result_slot' = result_slot
                /\ postCalls' = postCalls
                /\ posted' = posted)]_vars
    /\ [][(callsMade' # callsMade /\ lastCall'.name = TOOL_SUBMIT_REVIEW)
            => (/\ cached' = cached
                /\ fetchCalls' = fetchCalls
                /\ fetchOks' = fetchOks)]_vars
    /\ [][(listed' # listed /\ listed' # NoCatalog)
            => (/\ listed'.ok
                /\ listed'.tools = << "get_pr_context", "submit_review" >>
                /\ result_slot' = result_slot
                /\ cached' = cached
                /\ input' = input
                /\ fetchCalls' = fetchCalls /\ fetchOks' = fetchOks
                /\ postCalls' = postCalls /\ posted' = posted)]_vars
    /\ [](listed # NoCatalog
            => (listed.ok
                /\ listed.tools = << "get_pr_context", "submit_review" >>))

\* list_tools on a provider-backed source after one served get_pr_context
\* and one stored submission, with the slot and the cache still filled
C26_Witness ==
    /\ backing = "mcp"
    /\ callsMade = 2
    /\ result_slot.some /\ cached.some
    /\ fetchOks = 1 /\ Len(posted) = 1
    /\ listed = [ok |-> TRUE,
                 tools |-> << "get_pr_context", "submit_review" >>]

====
